---- MODULE Spec2Model ----
(***************************************************************************)
(* Connectivity runtime of the gateway: the log sink (slog.c), the         *)
(* once-only authentication report and the connection slot pool with its   *)
(* reconnect timers (pool.c), over the shared state of struct server       *)
(* (server.h) and struct conf (conf.h).                                    *)
(***************************************************************************)
EXTENDS Integers, Sequences, FiniteSets, TLC

(***************************************************************************)
(* Constants of the program.                                               *)
(***************************************************************************)

\* log_level: the index of each level in the letters "EWNIDT" (slog.c:125);
\* WEBDIS_TRACE is the level slog_internal maps to the last letter by name.
WEBDIS_ERROR == 0
WEBDIS_WARNING == 1
WEBDIS_NOTICE == 2
WEBDIS_INFO == 3
WEBDIS_DEBUG == 4
WEBDIS_TRACE == 8

Levels ==
  {WEBDIS_ERROR, WEBDIS_WARNING, WEBDIS_NOTICE, WEBDIS_INFO, WEBDIS_DEBUG, WEBDIS_TRACE}

LevelLetters == <<"E", "W", "N", "I", "D", "T">>

FsyncModes == {"LOG_FSYNC_NEVER", "LOG_FSYNC_MILLIS", "LOG_FSYNC_ALL"}

\* The least value the build accepts (slog.c:43-45).
SLOG_MSG_MAX_LEN == 64

\* hiredis status codes and reply types used by pool.c.
REDIS_OK == 0
REDIS_ERR == -1
ReplyTypes == {"REDIS_REPLY_ERROR", "REDIS_REPLY_STATUS", "REDIS_REPLY_INTEGER"}

(***************************************************************************)
(* Bounds of the model.                                                    *)
(***************************************************************************)

\* Width of size_t in the model: sizes are computed modulo 2^SizeBits.
SizeBits == 16
\* Descriptors are 0..MaxFd.
MaxFd == 5
\* Worker threads; each owns one event loop and one pool.
NumWorkers == 2
\* Slots of each pool (cfg->pool_size_per_thread).
PoolSize == 2
\* Authentication completions delivered to each worker.
MaxAuth == 2

SIZE_MAX == (2 ^ SizeBits) - 1
Fds == 0 .. MaxFd
Workers == 1 .. NumWorkers

(***************************************************************************)
(* C strings: a prefix of `len` bytes of the text named by txt.  A NULL    *)
(* pointer is NullStr.                                                     *)
(***************************************************************************)
CStr(t, n) == [txt |-> t, len |-> n]
NullStr == [txt |-> <<"NULL">>, len |-> -1]
NoStr == [txt |-> <<>>, len |-> 0]

Min(a, b) == IF a < b THEN a ELSE b

\* Number of characters "%d" prints for n >= 0.
RECURSIVE Digits(_)
Digits(n) == IF n < 10 THEN 1 ELSE 1 + Digits(n \div 10)

\* snprintf(buf, size, "<prefix>%s", str ? str : "(null)")
Format(prefix, str) ==
  IF str = NullStr
    THEN CStr(prefix.txt \o <<"(null)">>, prefix.len + 6)
    ELSE CStr(prefix.txt \o str.txt, prefix.len + str.len)

VARIABLES
  cfg,            \* struct conf: logfile, verbosity, log_fsync.mode
  log_self,       \* s->log.self
  log_fd,         \* s->log.fd
  fds,            \* the process's descriptor table: what each descriptor refers to
  fsync_ev,       \* s->log.fsync_ev: "NULL", "new" (created, not added) or "armed"
  fsync_inited,   \* slog_fsync_init has been called (it is called once, at start)
  auth_log_mutex, \* s->auth_log_mutex: 0 when free, else the worker holding it
  auth_logged,    \* s->auth_logged
  pc,             \* position of each worker thread inside pool_on_auth_complete
  reply,          \* the reply each worker is processing (NoReply outside the callback)
  ac,             \* redisAsyncContext handles: state, data (the owning pool), and
                  \* whether a reconnect timer requested the handle
  slots,          \* p->ac[] of each worker's pool
  timers,         \* pending pool_reconnect timers of each pool
  started,        \* connect requests each worker issued at start
  auth_done,      \* authentication completions delivered to each worker so far
  auth_seen,      \* reply kinds delivered to pool_on_auth_complete so far
  auth_calls,     \* calls of slog made by pool_log_auth so far
  auth_lines,     \* lines written to the sink by those calls so far
  ev,             \* the handler that ran last, with its inputs
  io              \* the system calls the last handler made, in order

logvars == <<cfg, log_self, log_fd, fds, fsync_ev, fsync_inited>>
authvars == <<auth_log_mutex, auth_logged, pc, reply, auth_done, auth_seen, auth_calls, auth_lines>>
poolvars == <<ac, slots, timers, started>>
vars == <<logvars, authvars, poolvars, ev, io>>

(***************************************************************************)
(* slog.c                                                                  *)
(***************************************************************************)

Sys(op, fd, n, letter, msg) == [op |-> op, fd |-> fd, n |-> n, letter |-> letter, msg |-> msg]
SysWrite(fd, n, letter, msg) == Sys("write", fd, n, letter, msg)
SysFsync(fd) == Sys("fsync", fd, 0, "", NoStr)
SysOpen(fd) == Sys("open", fd, 0, "", NoStr)
SysClose(fd) == Sys("close", fd, 0, "", NoStr)

Writes(s) == {i \in DOMAIN s : s[i].op = "write"}
Fsyncs(s) == {i \in DOMAIN s : s[i].op = "fsync"}

\* open(2): the lowest descriptor not in use, or -1.
OpenFd(f, ok) ==
  IF ok /\ \E d \in DOMAIN f : f[d] = "closed"
    THEN CHOOSE d \in DOMAIN f : f[d] = "closed" /\ \A e \in DOMAIN f : f[e] = "closed" => d <= e
    ELSE -1

\* close(2)
CloseFd(f, d) == IF d \in DOMAIN f THEN [f EXCEPT ![d] = "closed"] ELSE f

\* slog_init: the descriptor table it leaves.
SlogInitFds(f, old_fd, logfile, ok) ==
  IF logfile
    THEN LET fd == OpenFd(f, ok)
             g == IF fd # -1 THEN [f EXCEPT ![fd] = "logfile"] ELSE f
         IN  IF old_fd # -1 THEN CloseFd(g, old_fd) ELSE g
    ELSE f

\* slog_init without the fall through to standard error after a failed open.
SlogInitFd_NoFallback(f, old_fd, logfile, ok) ==
  IF logfile THEN OpenFd(f, ok) ELSE 2

\* slog_init: the value it leaves in s->log.fd.
SlogInitFd(f, old_fd, logfile, ok) ==
  IF logfile /\ OpenFd(f, ok) # -1 THEN OpenFd(f, ok) ELSE 2

\* slog_init: its system calls.
SlogInitIo(f, old_fd, logfile, ok) ==
  IF logfile
    THEN <<SysOpen(OpenFd(f, ok))>>
         \o (IF old_fd # -1 THEN <<SysClose(old_fd)>> ELSE <<>>)
         \o (IF OpenFd(f, ok) = -1
               THEN <<Sys("fprintf", 2, 0, "", CStr(<<"Could not open">>, 0))>> ELSE <<>>)
    ELSE <<>>

slog_enabled(level) == IF level <= cfg.verbosity THEN 1 ELSE 0

\* sz + 1 in size_t.
SzPlus1(sz) == (sz + 1) % (SIZE_MAX + 1)

\* sizeof(msg) and sizeof(line) in slog_internal.
MsgBufSize == 1 + SLOG_MSG_MAX_LEN
LineBufSize == 2 * SLOG_MSG_MAX_LEN

\* The size slog_internal hands to snprintf(msg, size, "%s", body).
MsgCopySize(sz) == IF SzPlus1(sz) > MsgBufSize THEN MsgBufSize ELSE SzPlus1(sz)

\* msg after that snprintf; with size 0 nothing is stored and msg keeps
\* whatever the stack held, a string of u bytes.
MsgOf(body, sz, u) ==
  LET n == IF sz # 0 THEN sz ELSE body.len
      size == MsgCopySize(n)
  IN  IF size = 0
        THEN CStr(<<"uninitialized">>, u)
        ELSE CStr(body.txt, Min(body.len, size - 1))

\* strftime "%d %b %H:%M:%S", or "(NO TIME AVAILABLE)".
TimeLen(lt) == IF lt THEN 15 ELSE 19

LevelLetter(level) ==
  IF level = WEBDIS_TRACE THEN LevelLetters[6] ELSE LevelLetters[level + 1]

\* The return value of snprintf(line, sizeof(line), "[%d] %s %c %s\n", ...).
LineSz(msg, lt) == 1 + Digits(log_self) + 2 + TimeLen(lt) + 1 + 1 + 1 + msg.len + 1

\* slog_internal flushing whenever the mode is not "never".
slog_internal_FsyncAny(level, body, sz, lt, u) ==
  IF log_fd = 0
    THEN <<>>
    ELSE LET msg == MsgOf(body, sz, u)
         IN  <<SysWrite(log_fd, LineSz(msg, lt), LevelLetter(level), msg)>>
             \o (IF cfg.fsync_mode # "LOG_FSYNC_NEVER" THEN <<SysFsync(log_fd)>> ELSE <<>>)

\* slog_internal: its system calls.
slog_internal(level, body, sz, lt, u) ==
  IF log_fd = 0
    THEN <<>>
    ELSE LET msg == MsgOf(body, sz, u)
         IN  <<SysWrite(log_fd, LineSz(msg, lt), LevelLetter(level), msg)>>
             \o (IF cfg.fsync_mode = "LOG_FSYNC_ALL" THEN <<SysFsync(log_fd)>> ELSE <<>>)

\* slog with the level compared by < instead of <=.
slog_Strict(level, body, sz, lt, u) ==
  IF level < cfg.verbosity THEN slog_internal(level, body, sz, lt, u) ELSE <<>>

\* slog: its system calls.
slog(level, body, sz, lt, u) ==
  IF level <= cfg.verbosity THEN slog_internal(level, body, sz, lt, u) ELSE <<>>

\* The inputs of the log sink's callers: the process id, and pairs of a body's
\* length and the size its caller declares (0: "use strlen").
Pids == {4194304}
SlogArgs ==
  {<<1, 0>>, <<4 * SLOG_MSG_MAX_LEN, 0>>, <<SLOG_MSG_MAX_LEN, SLOG_MSG_MAX_LEN>>,
   <<4 * SLOG_MSG_MAX_LEN, SLOG_MSG_MAX_LEN + 1>>, <<4 * SLOG_MSG_MAX_LEN, SIZE_MAX>>}
\* Lengths of the string an uninitialized msg may hold (it may run past the array).
UninitLens == {0, 2 * SLOG_MSG_MAX_LEN}
Uninit(body, sz) ==
  IF MsgCopySize(IF sz # 0 THEN sz ELSE body.len) = 0 THEN UninitLens ELSE {0}

SlogInit(pid, ok) ==
  /\ log_self' = pid
  /\ log_fd' = SlogInitFd(fds, log_fd, cfg.logfile, ok)
  /\ fds' = SlogInitFds(fds, log_fd, cfg.logfile, ok)
  /\ io' = SlogInitIo(fds, log_fd, cfg.logfile, ok)
  /\ ev' = [op |-> "slog_init", ok |-> ok, old_fd |-> log_fd,
            opened |-> IF cfg.logfile THEN OpenFd(fds, ok) ELSE -1]
  /\ UNCHANGED <<cfg, fsync_ev, fsync_inited, authvars, poolvars>>

\* slog_fsync_init: the state of the timer it leaves.
FsyncInitEv(new_ok, add_ok) ==
  IF cfg.fsync_mode # "LOG_FSYNC_MILLIS"
    THEN fsync_ev
    ELSE IF ~new_ok THEN "NULL" ELSE IF add_ok THEN "armed" ELSE "new"

\* slog_fsync_init: its system calls.
FsyncInitIo(new_ok, add_ok, lt) ==
  IF cfg.fsync_mode # "LOG_FSYNC_MILLIS"
    THEN <<>>
    ELSE IF ~new_ok
           THEN slog(WEBDIS_ERROR, CStr(<<"fsync timer could not be created">>, 32), 32, lt, 0)
           ELSE IF add_ok
                  THEN <<>>
                  ELSE slog(WEBDIS_ERROR, CStr(<<"fsync timer could not be added: ", "-1">>, 34),
                            34, lt, 0)

SlogFsyncInit(new_ok, add_ok, lt) ==
  /\ ~fsync_inited
  /\ log_fd # -1
  /\ fsync_inited' = TRUE
  /\ fsync_ev' = FsyncInitEv(new_ok, add_ok)
  /\ io' = FsyncInitIo(new_ok, add_ok, lt)
  /\ ev' = [op |-> "slog_fsync_init", new_ok |-> new_ok, add_ok |-> add_ok]
  /\ UNCHANGED <<cfg, log_self, log_fd, fds, authvars, poolvars>>

\* slog_fsync_tick: its system calls.
FsyncTickIo == <<SysFsync(log_fd)>>

SlogFsyncTick ==
  /\ fsync_ev = "armed"
  /\ io' = FsyncTickIo
  /\ ev' = [op |-> "slog_fsync_tick"]
  /\ UNCHANGED <<logvars, authvars, poolvars>>

Slog(level, body, sz, lt, u) ==
  /\ log_fd # -1
  /\ io' = slog(level, body, sz, lt, u)
  /\ ev' = [op |-> "slog", level |-> level, body |-> body, sz |-> sz, lt |-> lt]
  /\ UNCHANGED <<logvars, authvars, poolvars>>

SlogEnabled(level) ==
  /\ log_fd # -1
  /\ io' = <<>>
  /\ ev' = [op |-> "slog_enabled", level |-> level, ret |-> slog_enabled(level)]
  /\ UNCHANGED <<logvars, authvars, poolvars>>

(***************************************************************************)
(* The state after construction: no log is open, no timer is installed,    *)
(* nothing has been logged, every slot is empty.                           *)
(***************************************************************************)
StdFds == [d \in Fds |-> IF d = 0 THEN "stdin" ELSE IF d = 1 THEN "stdout"
                         ELSE IF d = 2 THEN "stderr" ELSE "closed"]

\* Addresses of redisAsyncContext objects: one more than a pool can hold, so
\* that a new handle may or may not reuse the address of a freed one.
Handles == 1 .. (PoolSize + 1)
NULL == 0
NoReply == [type |-> "NULL", str |-> NullStr]

Init ==
  /\ cfg \in [logfile : BOOLEAN, verbosity : Levels, fsync_mode : FsyncModes]
  /\ log_self = 0
  /\ log_fd = -1
  /\ fds = StdFds
  /\ fsync_ev = "NULL"
  /\ fsync_inited = FALSE
  /\ auth_log_mutex = 0
  /\ auth_logged = 0
  /\ pc = [w \in Workers |-> "idle"]
  /\ reply = [w \in Workers |-> NoReply]
  /\ ac = [h \in Handles |-> [state |-> "Free", data |-> NULL, reconnect |-> FALSE]]
  /\ slots = [w \in Workers |-> [i \in 0 .. (PoolSize - 1) |-> NULL]]
  /\ timers = [w \in Workers |-> 0]
  /\ started = [w \in Workers |-> 0]
  /\ auth_done = [w \in Workers |-> 0]
  /\ auth_seen = {}
  /\ auth_calls = 0
  /\ auth_lines = 0
  /\ ev = [op |-> "init"]
  /\ io = <<>>

(***************************************************************************)
(* The log sink on its own: initialisation and re-initialisation, the      *)
(* fsync timer, and writes of any level, length and declared size.         *)
(***************************************************************************)
NextLog ==
  \/ \E pid \in Pids, ok \in BOOLEAN : SlogInit(pid, ok)
  \/ \E new_ok \in BOOLEAN, add_ok \in BOOLEAN, lt \in BOOLEAN : SlogFsyncInit(new_ok, add_ok, lt)
  \/ SlogFsyncTick
  \/ \E level \in Levels, a \in SlogArgs, lt \in BOOLEAN :
       \E u \in Uninit(CStr(<<"body">>, a[1]), a[2]) :
         Slog(level, CStr(<<"body">>, a[1]), a[2], lt, u)
  \/ \E level \in Levels : SlogEnabled(level)

SpecLog == Init /\ [][NextLog]_vars

(***************************************************************************)
(* The state once the server has started: slog_init and slog_fsync_init    *)
(* have run, in that order, from the state after construction.             *)
(***************************************************************************)
InitStarted(cfgs) ==
  /\ cfg \in cfgs
  /\ log_self \in Pids
  /\ \E ok \in BOOLEAN :
       /\ log_fd = SlogInitFd(StdFds, -1, cfg.logfile, ok)
       /\ fds = SlogInitFds(StdFds, -1, cfg.logfile, ok)
  /\ fsync_ev \in (IF cfg.fsync_mode = "LOG_FSYNC_MILLIS" THEN {"NULL", "new", "armed"} ELSE {"NULL"})
  /\ fsync_inited = TRUE
  /\ auth_log_mutex = 0
  /\ auth_logged = 0
  /\ pc = [w \in Workers |-> "idle"]
  /\ reply = [w \in Workers |-> NoReply]
  /\ ac = [h \in Handles |-> [state |-> "Free", data |-> NULL, reconnect |-> FALSE]]
  /\ slots = [w \in Workers |-> [i \in 0 .. (PoolSize - 1) |-> NULL]]
  /\ timers = [w \in Workers |-> 0]
  /\ started = [w \in Workers |-> 0]
  /\ auth_done = [w \in Workers |-> 0]
  /\ auth_seen = {}
  /\ auth_calls = 0
  /\ auth_lines = 0
  /\ ev = [op |-> "init"]
  /\ io = <<>>

(***************************************************************************)
(* pool.c: the authentication report.  Each worker thread runs             *)
(* pool_on_auth_complete on its own event loop; the threads interleave at  *)
(* the mutex operations.                                                   *)
(***************************************************************************)

\* The replies the library hands to the callback: none, or a reply of a type.
AuthReplies ==
  {NoReply,
   [type |-> "REDIS_REPLY_ERROR", str |-> CStr(<<"WRONGPASS">>, 9)],
   [type |-> "REDIS_REPLY_STATUS", str |-> CStr(<<"OK">>, 2)],
   [type |-> "REDIS_REPLY_INTEGER", str |-> NullStr]}

\* err_format and ok_format without their "%s", and sizeof(format) - 1.
ErrFormat == CStr(<<"Authentication failed: ">>, 23)
OkFormat == CStr(<<"Authentication succeeded: ">>, 26)
ErrFormatLen == 25
OkFormatLen == 28

\* pool_log_auth: its system calls.
pool_log_auth(level, format, format_len, str, lt) ==
  LET msg_size == format_len - 2 + (IF str = NullStr THEN 6 ELSE str.len) + 1
  IN  slog(level, Format(format, str), msg_size - 1, lt, 0)

\* The entry without the test of the reply.
AuthEntry_NoNullTest(r) == "lock"

\* if (!reply) return;  where the callback goes on from its entry.
AuthEntry(r) == IF r = NoReply THEN "idle" ELSE "lock"

\* pool_on_auth_complete, entry: a missing reply returns at once.
AuthComplete(w, r) ==
  /\ pc[w] = "idle"
  /\ auth_done[w] < MaxAuth
  /\ auth_done' = [auth_done EXCEPT ![w] = @ + 1]
  /\ auth_seen' = auth_seen \cup {r.type}
  /\ pc' = [pc EXCEPT ![w] = AuthEntry(r)]
  /\ reply' = [reply EXCEPT ![w] = IF AuthEntry(r) = "idle" THEN NoReply ELSE r]
  /\ io' = <<>>
  /\ ev' = [op |-> "auth_complete", w |-> w, reply |-> r]
  /\ UNCHANGED <<logvars, poolvars, auth_log_mutex, auth_logged, auth_calls, auth_lines>>

\* pthread_mutex_lock(&s->auth_log_mutex)
AuthLock(w) ==
  /\ pc[w] = "lock"
  /\ auth_log_mutex = 0
  /\ auth_log_mutex' = w
  /\ pc' = [pc EXCEPT ![w] = "check"]
  /\ io' = <<>>
  /\ ev' = [op |-> "auth_lock", w |-> w]
  /\ UNCHANGED <<logvars, poolvars, auth_logged, reply, auth_done, auth_seen, auth_calls, auth_lines>>

\* The callback without the test of s->auth_logged.
AuthAlreadyLogged_Never == FALSE

\* The test of s->auth_logged: whether the callback returns without logging.
AuthAlreadyLogged == auth_logged # 0

\* A return that leaves the mutex locked.
AuthUnlock_Missing(m) == m

\* pthread_mutex_unlock(&s->auth_log_mutex) on the return of a completion
\* that finds the outcome already logged.
AuthUnlock(m) == 0

\* if(s->auth_logged) { unlock; return; }
AuthCheck(w) ==
  /\ pc[w] = "check"
  /\ pc' = [pc EXCEPT ![w] = IF AuthAlreadyLogged THEN "idle" ELSE "log"]
  /\ auth_log_mutex' = IF AuthAlreadyLogged THEN AuthUnlock(auth_log_mutex) ELSE auth_log_mutex
  /\ reply' = [reply EXCEPT ![w] = IF AuthAlreadyLogged THEN NoReply ELSE @]
  /\ io' = <<>>
  /\ ev' = [op |-> "auth_check", w |-> w]
  /\ UNCHANGED <<logvars, poolvars, auth_logged, auth_done, auth_seen, auth_calls, auth_lines>>

\* A classification that reports failures only.
AuthLogIo_ErrorsOnly(r, lt) ==
  IF r.type = "REDIS_REPLY_ERROR"
    THEN pool_log_auth(WEBDIS_ERROR, ErrFormat, ErrFormatLen, r.str, lt)
    ELSE <<>>

\* A classification that reports successes at error level.
AuthLogIo_SuccessAtError(r, lt) ==
  IF r.type = "REDIS_REPLY_ERROR"
    THEN pool_log_auth(WEBDIS_ERROR, ErrFormat, ErrFormatLen, r.str, lt)
    ELSE IF r.type = "REDIS_REPLY_STATUS"
           THEN pool_log_auth(WEBDIS_ERROR, OkFormat, OkFormatLen, r.str, lt)
           ELSE <<>>

\* The classification of the reply: the system calls of the log call it makes.
AuthLogIo(r, lt) ==
  IF r.type = "REDIS_REPLY_ERROR"
    THEN pool_log_auth(WEBDIS_ERROR, ErrFormat, ErrFormatLen, r.str, lt)
    ELSE IF r.type = "REDIS_REPLY_STATUS"
           THEN pool_log_auth(WEBDIS_INFO, OkFormat, OkFormatLen, r.str, lt)
           ELSE <<>>

\* Whether the classification passes an outcome to the log.
AuthLogs(r) == r.type \in {"REDIS_REPLY_ERROR", "REDIS_REPLY_STATUS"}

AuthLog(w, lt) ==
  /\ pc[w] = "log"
  /\ io' = AuthLogIo(reply[w], lt)
  /\ auth_calls' = auth_calls + (IF AuthLogs(reply[w]) THEN 1 ELSE 0)
  /\ auth_lines' = auth_lines + Cardinality(Writes(AuthLogIo(reply[w], lt)))
  /\ pc' = [pc EXCEPT ![w] = "set"]
  /\ ev' = [op |-> "auth_log", w |-> w, reply |-> reply[w]]
  /\ UNCHANGED <<logvars, poolvars, auth_log_mutex, auth_logged, reply, auth_done, auth_seen>>

\* s->auth_logged++; pthread_mutex_unlock(&s->auth_log_mutex);
AuthSet(w) ==
  /\ pc[w] = "set"
  /\ auth_logged' = auth_logged + 1
  /\ auth_log_mutex' = 0
  /\ pc' = [pc EXCEPT ![w] = "idle"]
  /\ reply' = [reply EXCEPT ![w] = NoReply]
  /\ io' = <<>>
  /\ ev' = [op |-> "auth_set", w |-> w]
  /\ UNCHANGED <<logvars, poolvars, auth_done, auth_seen, auth_calls, auth_lines>>

\* The authentication report logs through the sink as configured: thresholds
\* at the error level, between the two levels it logs at, and at the info
\* level, to standard error, with a flush per write.
AuthCfgs ==
  [logfile : {FALSE}, verbosity : {WEBDIS_ERROR, WEBDIS_NOTICE, WEBDIS_INFO},
   fsync_mode : {"LOG_FSYNC_ALL"}]

InitAuth == InitStarted(AuthCfgs)

NextAuth ==
  \/ \E w \in Workers, r \in AuthReplies : AuthComplete(w, r)
  \/ \E w \in Workers : AuthLock(w)
  \/ \E w \in Workers : AuthCheck(w)
  \/ \E w \in Workers, lt \in BOOLEAN : AuthLog(w, lt)
  \/ \E w \in Workers : AuthSet(w)

SpecAuth == InitAuth /\ [][NextAuth]_vars

\* The threads at the mutex: what a thread does there depends on whether it
\* has a reply and on the flag, not on what is logged, so the completions
\* carry no reply, an error reply or a reply of another type, and the sink
\* has one configuration.
LockCfgs == [logfile : {FALSE}, verbosity : {WEBDIS_INFO}, fsync_mode : {"LOG_FSYNC_NEVER"}]
LockReplies ==
  {r \in AuthReplies : r.type \in {"NULL", "REDIS_REPLY_ERROR", "REDIS_REPLY_INTEGER"}}

NextAuthLock ==
  \/ \E w \in Workers, r \in LockReplies : AuthComplete(w, r)
  \/ \E w \in Workers : AuthLock(w)
  \/ \E w \in Workers : AuthCheck(w)
  \/ \E w \in Workers : AuthLog(w, TRUE)
  \/ \E w \in Workers : AuthSet(w)

\* Every thread keeps running: a thread inside the callback takes its next
\* step, and a thread waiting for a mutex that stays free gets it.
FairSpecAuth ==
  /\ InitStarted(LockCfgs)
  /\ [][NextAuthLock]_vars
  /\ \A w \in Workers :
       /\ WF_vars(AuthLock(w))
       /\ WF_vars(AuthCheck(w))
       /\ WF_vars(\E lt \in BOOLEAN : AuthLog(w, lt))
       /\ WF_vars(AuthSet(w))


(***************************************************************************)
(* pool.c: the slots of each worker's pool and its reconnect timers.       *)
(* Worker w owns pool w; handles are the addresses of redisAsyncContext    *)
(* objects, reused once the library has freed them.                        *)
(***************************************************************************)
Slots == 0 .. (PoolSize - 1)
FreeHandle == [state |-> "Free", data |-> NULL, reconnect |-> FALSE]

\* The empty slots of a pool's array.
EmptySlots(a) == {i \in DOMAIN a : a[i] = NULL}

\* The lowest index of a non-empty set of indexes.
Lowest(S) == CHOOSE i \in S : \A j \in S : i <= j

\* pool_on_connect with the scan running on after the first empty slot.
pool_add_NoReturn(a, h) == [i \in DOMAIN a |-> IF a[i] = NULL THEN h ELSE a[i]]

\* pool_on_connect with the scan keeping the last empty slot it meets.
pool_add_Last(a, h) ==
  IF EmptySlots(a) = {}
    THEN a
    ELSE [a EXCEPT ![CHOOSE i \in EmptySlots(a) : \A j \in EmptySlots(a) : j <= i] = h]

\* pool_on_connect, "add to pool": the array after the scan for an empty slot.
pool_add(a, h) ==
  IF EmptySlots(a) = {} THEN a ELSE [a EXCEPT ![Lowest(EmptySlots(a))] = h]

\* A scan that clears the first occupied slot, whatever handle it holds.
pool_remove_First(a, h) ==
  IF \E i \in DOMAIN a : a[i] # NULL
    THEN [a EXCEPT ![Lowest({i \in DOMAIN a : a[i] # NULL})] = NULL]
    ELSE a

\* A disconnect callback that leaves the handle in its slot.
pool_remove_Keep(a, h) == a

\* pool_on_disconnect, "remove from the pool": the array after the scan for h.
pool_remove(a, h) ==
  IF \E i \in DOMAIN a : a[i] = h
    THEN [a EXCEPT ![Lowest({i \in DOMAIN a : a[i] = h})] = NULL]
    ELSE a

\* A reconnect that arms no timer.
pool_schedule_reconnect_Lost(t, p) == t

\* A reconnect that arms two timers.
pool_schedule_reconnect_Twice(t, p) == [t EXCEPT ![p] = @ + 2]

\* pool_schedule_reconnect: one more timer pending for pool p.
pool_schedule_reconnect(t, p) == [t EXCEPT ![p] = @ + 1]

\* request_connect: a new handle in flight, with the pool as its callback context.
pool_connect(a, h, p, is_reconnect) ==
  [a EXCEPT ![h] = [state |-> "Connecting", data |-> p, reconnect |-> is_reconnect]]

\* The address of the next redisAsyncContext: any address not in use.
IsNewHandle(h) == ac[h].state = "Free"

\* The worker's connect requests at start, one per slot.
WorkerStart(w, h) ==
  /\ started[w] < PoolSize
  /\ IsNewHandle(h)
  /\ started' = [started EXCEPT ![w] = @ + 1]
  /\ ac' = pool_connect(ac, h, w, FALSE)
  /\ io' = <<>>
  /\ ev' = [op |-> "pool_connect", p |-> w, h |-> h, is_reconnect |-> FALSE]
  /\ UNCHANGED <<logvars, authvars, slots, timers>>

\* The test at the head of pool_on_connect.
ConnectFailed(p, status, err) == p = NULL \/ status = REDIS_ERR \/ err # 0

\* The results a connect attempt ends with: status and ac->err (the library
\* sets ac->err when, and only when, it reports REDIS_ERR).
ConnectResults == {<<REDIS_OK, 0>>, <<REDIS_ERR, 1>>}

\* pool_on_connect; after an attempt that failed the library frees the handle,
\* after one that succeeded the handle is connected, with or without a pool.
PoolOnConnect(h, status, err) ==
  /\ ac[h].state = "Connecting"
  /\ LET p == ac[h].data
     IN  /\ IF ConnectFailed(p, status, err)
              THEN /\ timers' = IF p # NULL THEN pool_schedule_reconnect(timers, p) ELSE timers
                   /\ slots' = slots
              ELSE /\ timers' = timers
                   /\ slots' = [slots EXCEPT ![p] = pool_add(@, h)]
         /\ ac' = IF status = REDIS_ERR \/ err # 0
                    THEN [ac EXCEPT ![h] = FreeHandle]
                    ELSE [ac EXCEPT ![h].state = "Connected"]
         /\ ev' = [op |-> "pool_on_connect", p |-> p, h |-> h, status |-> status, err |-> err]
  /\ io' = <<>>
  /\ UNCHANGED <<logvars, authvars, started>>

\* A timer that stays pending after it has fired.
TimerFired_Periodic(t, p) == t

\* pool_can_connect, free(pr): the one-shot timer that fired is gone.
TimerFired(t, p) == [t EXCEPT ![p] = @ - 1]

\* pool_can_connect: the arguments of its call of pool_connect.
CanConnectArgs(p) == [p |-> p, db_num |-> cfg.database, is_reconnect |-> TRUE]

\* pool_can_connect: the timer fires, is freed, and issues a connect request.
PoolCanConnect(p, h) ==
  /\ timers[p] > 0
  /\ IsNewHandle(h)
  /\ timers' = TimerFired(timers, p)
  /\ ac' = pool_connect(ac, h, CanConnectArgs(p).p, CanConnectArgs(p).is_reconnect)
  /\ io' = <<>>
  /\ ev' = [op |-> "pool_can_connect", p |-> CanConnectArgs(p).p, h |-> h,
            db_num |-> CanConnectArgs(p).db_num,
            is_reconnect |-> CanConnectArgs(p).is_reconnect]
  /\ UNCHANGED <<logvars, authvars, slots, started>>

\* pool_free_context: redisAsyncDisconnect on a connected handle.
PoolFreeContext(h) ==
  /\ ac[h].state = "Connected"
  /\ ac' = [ac EXCEPT ![h].state = "Disconnecting"]
  /\ io' = <<>>
  /\ ev' = [op |-> "pool_free_context", p |-> ac[h].data, h |-> h]
  /\ UNCHANGED <<logvars, authvars, slots, timers, started>>

\* "Error disconnecting: %s" without its "%s"; sizeof(format).
DisconnectFormat == CStr(<<"Error disconnecting: ">>, 21)
DisconnectFormatSize == 24

\* How a connection ends: the status, ac->errstr (absent, short, or as long
\* as the library's buffer of 128 bytes allows), and whether the time of day
\* can be had for the log line.
DisconnectResults ==
  {<<REDIS_OK, NullStr, TRUE>>, <<REDIS_ERR, NullStr, TRUE>>,
   <<REDIS_ERR, CStr(<<"Connection reset by peer">>, 24), FALSE>>,
   <<REDIS_ERR, CStr(<<"an error string that fills the buffer">>, 127), TRUE>>}

\* pool_on_disconnect logging whatever the status.
DisconnectIo_Always(status, errstr, lt) ==
  LET msg_sz == DisconnectFormatSize - 2 + (IF errstr # NullStr THEN errstr.len ELSE 6)
  IN  slog(WEBDIS_ERROR, Format(DisconnectFormat, errstr), msg_sz - 1, lt, 0)

\* pool_on_disconnect: the system calls of its log call.
DisconnectIo(status, errstr, lt) ==
  IF status # REDIS_OK
    THEN LET msg_sz == DisconnectFormatSize - 2 + (IF errstr # NullStr THEN errstr.len ELSE 6)
         IN  slog(WEBDIS_ERROR, Format(DisconnectFormat, errstr), msg_sz - 1, lt, 0)
    ELSE <<>>

\* pool_on_disconnect scheduling a reconnect only after an error.
DisconnectTimers_OnErrorOnly(t, p, status) ==
  IF p = NULL \/ status = REDIS_OK THEN t ELSE pool_schedule_reconnect(t, p)

\* pool_on_disconnect: the timers it leaves; none is added when the handle
\* has no pool (the early return), one otherwise.
DisconnectTimers(t, p, status) ==
  IF p = NULL THEN t ELSE pool_schedule_reconnect(t, p)

\* pool_on_disconnect; the library frees the handle after the callback.
PoolOnDisconnect(h, status, errstr, lt) ==
  /\ ac[h].state \in {"Connected", "Disconnecting"}
  /\ LET p == ac[h].data
     IN  /\ IF p = NULL
              THEN /\ io' = <<>>
                   /\ slots' = slots
              ELSE /\ io' = DisconnectIo(status, errstr, lt)
                   /\ slots' = [slots EXCEPT ![p] = pool_remove(@, h)]
         /\ timers' = DisconnectTimers(timers, p, status)
         /\ ev' = [op |-> "pool_on_disconnect", p |-> p, h |-> h, status |-> status,
                   errstr |-> errstr, was |-> ac[h].state]
  /\ ac' = [ac EXCEPT ![h] = FreeHandle]
  /\ UNCHANGED <<logvars, authvars, started>>

\* The database numbers a configuration may name.
Databases == {1}

\* The pools log disconnect errors through the sink, and reconnect to the
\* configured database.
PoolCfgs ==
  [logfile : {FALSE}, verbosity : {WEBDIS_ERROR, WEBDIS_INFO}, fsync_mode : {"LOG_FSYNC_NEVER"},
   database : Databases]

\* The workers whose pools are followed.  A pool's callbacks reach only the
\* pool in ac->data and the timers of that pool, so pools share no state and
\* one pool shows what each does.
PoolWorkers == {1}

InitPool == InitStarted(PoolCfgs)

NextPool ==
  \/ \E w \in PoolWorkers, h \in Handles : WorkerStart(w, h)
  \/ \E h \in Handles, r \in ConnectResults : PoolOnConnect(h, r[1], r[2])
  \/ \E p \in PoolWorkers, h \in Handles : PoolCanConnect(p, h)
  \/ \E h \in Handles : PoolFreeContext(h)
  \/ \E h \in Handles, r \in DisconnectResults : PoolOnDisconnect(h, r[1], r[2], r[3])

SpecPool == InitPool /\ [][NextPool]_vars

\* The pool's callbacks with a disconnect told only by its status: whether a
\* reconnect follows does not depend on the error string.
NextPoolStatus ==
  \/ \E w \in PoolWorkers, h \in Handles : WorkerStart(w, h)
  \/ \E h \in Handles, r \in ConnectResults : PoolOnConnect(h, r[1], r[2])
  \/ \E p \in PoolWorkers, h \in Handles : PoolCanConnect(p, h)
  \/ \E h \in Handles : PoolFreeContext(h)
  \/ \E h \in Handles, status \in {REDIS_OK, REDIS_ERR} :
       PoolOnDisconnect(h, status, NullStr, TRUE)

\* The event loop fires every timer it holds, and the library calls back
\* for every connect attempt.
FairSpecPool ==
  /\ InitPool
  /\ [][NextPoolStatus]_vars
  /\ \A p \in PoolWorkers : WF_vars(\E h \in Handles : PoolCanConnect(p, h))
  /\ \A h \in Handles : WF_vars(\E r \in ConnectResults : PoolOnConnect(h, r[1], r[2]))

\* A connect request whose handle has no pool in its data field: the handle
\* pool_on_connect (!p) and pool_on_disconnect (p == NULL) test for.  One
\* such handle is followed at a time.
ConnectUnattached(h) ==
  /\ IsNewHandle(h)
  /\ \A g \in Handles : ac[g].state # "Free" => ac[g].data # NULL
  /\ ac' = pool_connect(ac, h, NULL, FALSE)
  /\ io' = <<>>
  /\ ev' = [op |-> "pool_connect", p |-> NULL, h |-> h, is_reconnect |-> FALSE]
  /\ UNCHANGED <<logvars, authvars, slots, timers, started>>

\* An authentication callback that closes the connection after a failure.
AuthContext_CloseOnError(a, c, r) ==
  IF r.type = "REDIS_REPLY_ERROR" THEN [a EXCEPT ![c].state = "Disconnecting"] ELSE a

\* pool_on_auth_complete: the handles it leaves.  Its context argument is
\* unused ((void)c) and it calls nothing of the pool or of the library.
AuthContext(a, c, r) == a

\* pool_on_auth_complete as the event loop of pool p runs it: to completion,
\* between two callbacks of the pool, for a handle c of the pool.  A reply
\* comes on a connected handle; the library reports a handle that is going
\* down with no reply.  The per-thread history (auth_done, auth_seen) is that
\* of the interleaved callback and is not kept here.
PoolOnAuthComplete(p, c, r, lt) ==
  /\ ac[c].data = p
  /\ ac[c].state \in (IF r = NoReply THEN {"Connected", "Disconnecting"} ELSE {"Connected"})
  /\ IF AuthEntry(r) = "idle" \/ AuthAlreadyLogged
       THEN /\ io' = <<>>
            /\ UNCHANGED <<auth_logged, auth_calls, auth_lines>>
       ELSE /\ io' = AuthLogIo(r, lt)
            /\ auth_calls' = auth_calls + (IF AuthLogs(r) THEN 1 ELSE 0)
            /\ auth_lines' = auth_lines + Cardinality(Writes(AuthLogIo(r, lt)))
            /\ auth_logged' = auth_logged + 1
  /\ ac' = AuthContext(ac, c, r)
  /\ ev' = [op |-> "pool_on_auth_complete", p |-> p, c |-> c, reply |-> r]
  /\ UNCHANGED <<logvars, auth_log_mutex, pc, reply, auth_done, auth_seen, slots, timers, started>>

\* The callbacks of one event loop: those of the pool and the authentication
\* callback of its connections.
NextPoolAuth ==
  \/ \E w \in PoolWorkers, h \in Handles : WorkerStart(w, h)
  \/ \E h \in Handles, r \in ConnectResults : PoolOnConnect(h, r[1], r[2])
  \/ \E p \in PoolWorkers, h \in Handles : PoolCanConnect(p, h)
  \/ \E h \in Handles : PoolFreeContext(h)
  \/ \E h \in Handles : PoolOnDisconnect(h, REDIS_OK, NullStr, TRUE)
  \/ \E p \in PoolWorkers, c \in Handles, r \in AuthReplies :
       PoolOnAuthComplete(p, c, r, TRUE)

SpecPoolAuth == InitPool /\ [][NextPoolAuth]_vars

\* The pool's callbacks over every handle the library may hand them: the
\* handles of the pool and handles without a pool.
NextHandles ==
  \/ \E w \in PoolWorkers, h \in Handles : WorkerStart(w, h)
  \/ \E h \in Handles : ConnectUnattached(h)
  \/ \E h \in Handles, r \in ConnectResults : PoolOnConnect(h, r[1], r[2])
  \/ \E p \in PoolWorkers, h \in Handles : PoolCanConnect(p, h)
  \/ \E h \in Handles, status \in {REDIS_OK, REDIS_ERR} :
       PoolOnDisconnect(h, status, NullStr, TRUE)

SpecHandles == InitPool /\ [][NextHandles]_vars

(***************************************************************************)
(* Properties of the log sink.                                             *)
(***************************************************************************)

\* C6. Level gating: slog(L, msg) makes no system call when L is above the
\* verbosity threshold, and otherwise writes exactly one line, to the sink
\* descriptor; slog_enabled(L) is 1 exactly when L <= threshold.
C6_LevelGating ==
  /\ ev.op = "slog" =>
       IF ev.level > cfg.verbosity
         THEN io = <<>>
         ELSE /\ Cardinality(Writes(io)) = 1
              /\ io[1].op = "write"
              /\ io[1].fd = log_fd
  /\ ev.op = "slog_enabled" => (ev.ret = 1 <=> ev.level <= cfg.verbosity)

\* The scenario of C6: threshold "warn", a write at "info": nothing is written;
C6_Witness ==
  /\ ev.op = "slog"
  /\ ev.level = WEBDIS_INFO
  /\ cfg.verbosity = WEBDIS_WARNING
  /\ io = <<>>

\* C7. Fsync fidelity: under LOG_FSYNC_ALL every write of a line is followed at
\* once, in the same call, by an fsync of the same descriptor; under
\* LOG_FSYNC_MILLIS only the timer's tick calls fsync; under the remaining
\* mode nothing calls fsync and no timer is installed.
C7_FsyncFidelity ==
  /\ cfg.fsync_mode = "LOG_FSYNC_ALL" =>
       \A i \in Writes(io) : i + 1 \in DOMAIN io /\ io[i + 1] = SysFsync(io[i].fd)
  /\ cfg.fsync_mode = "LOG_FSYNC_MILLIS" =>
       /\ Fsyncs(io) # {} => ev.op = "slog_fsync_tick"
       /\ ev.op = "slog_fsync_tick" => io = <<SysFsync(log_fd)>>
  /\ cfg.fsync_mode = "LOG_FSYNC_NEVER" => Fsyncs(io) = {} /\ fsync_ev = "NULL"
  /\ fsync_ev # "NULL" => cfg.fsync_mode = "LOG_FSYNC_MILLIS"

\* A line written and flushed by one call of slog under LOG_FSYNC_ALL.
C7_Witness ==
  /\ cfg.fsync_mode = "LOG_FSYNC_ALL"
  /\ ev.op = "slog"
  /\ Len(io) = 2
  /\ io[2].op = "fsync"

\* C8. Truncation safety, as claimed: whatever the body's length and the
\* declared size, msg holds at most SLOG_MSG_MAX_LEN bytes, the line fits the
\* line buffer and the count handed to write is within that buffer.
C8_TruncationSafe ==
  ev.op = "slog" =>
    \A i \in Writes(io) :
      /\ io[i].msg.len <= SLOG_MSG_MAX_LEN
      /\ io[i].n < LineBufSize

\* The same for every declared size below SIZE_MAX (sz + 1 does not wrap).
TruncationSafeBelowSizeMax ==
  (ev.op = "slog" /\ ev.sz # SIZE_MAX) =>
    \A i \in Writes(io) :
      /\ io[i].msg.len <= SLOG_MSG_MAX_LEN
      /\ io[i].msg.len = Min(IF ev.sz # 0 THEN ev.sz ELSE ev.body.len,
                             Min(ev.body.len, SLOG_MSG_MAX_LEN))
      /\ io[i].n < LineBufSize

\* C9. Destination fallback: slog_init leaves in s->log.fd the descriptor it
\* just opened when a log file is configured and can be opened, and 2
\* otherwise; at the first initialisation (no log was open before) that
\* descriptor refers to the log file, respectively to standard error.
C9_Fallback ==
  ev.op = "slog_init" =>
    IF cfg.logfile /\ ev.ok
      THEN /\ ev.opened # -1
           /\ log_fd = ev.opened
           /\ ev.old_fd = -1 => fds[log_fd] = "logfile"
      ELSE /\ log_fd = 2
           /\ ev.old_fd = -1 => fds[2] = "stderr"

\* A configured log file that could not be opened.
C9_Witness ==
  /\ ev.op = "slog_init"
  /\ cfg.logfile
  /\ ~ev.ok
  /\ log_fd = 2

(***************************************************************************)
(* Properties of the authentication report.                                *)
(***************************************************************************)

\* No worker is inside pool_on_auth_complete.
Quiescent == \A w \in Workers : pc[w] = "idle"

\* Every completion so far carried no reply, an error reply or a status reply.
OnlyAuthOutcomes == auth_seen \subseteq {"NULL", "REDIS_REPLY_ERROR", "REDIS_REPLY_STATUS"}

\* Some completion so far carried an error or a status reply.
SomeOutcome == auth_seen \cap {"REDIS_REPLY_ERROR", "REDIS_REPLY_STATUS"} # {}

\* C3, as claimed: once the completions delivered (none, error or status
\* replies) have all returned, exactly one authentication line has been
\* written if one of them carried an error or status reply, and none
\* otherwise.
C3_OneLine ==
  (Quiescent /\ OnlyAuthOutcomes) => auth_lines = (IF SomeOutcome THEN 1 ELSE 0)

\* C3, amended: exactly one authentication message has been passed to slog if
\* a completion carried an error or status reply and none otherwise; the
\* message is written as one line when its level passes the verbosity
\* threshold (a failure always, a success only from WEBDIS_INFO up) and as
\* no line otherwise.
C3_OneMessage ==
  (Quiescent /\ OnlyAuthOutcomes) =>
    /\ auth_calls = (IF SomeOutcome THEN 1 ELSE 0)
    /\ auth_lines <= auth_calls
    /\ cfg.verbosity >= WEBDIS_INFO => auth_lines = auth_calls
    /\ "REDIS_REPLY_STATUS" \notin auth_seen => auth_lines = auth_calls
    /\ (cfg.verbosity < WEBDIS_INFO /\ "REDIS_REPLY_ERROR" \notin auth_seen) => auth_lines = 0

\* The scenario of C3: every worker completed with an error reply, and one
\* line was written.
C3_Witness ==
  /\ Quiescent
  /\ auth_seen = {"REDIS_REPLY_ERROR"}
  /\ \A w \in Workers : auth_done[w] >= 1
  /\ auth_lines = 1

\* C4. At most one authentication outcome is ever passed to the log.
C4_AtMostOne == auth_calls <= 1

\* Every worker has had all its completions, failures and successes among
\* them, and one outcome was passed to the log.
C4_Witness ==
  /\ Quiescent
  /\ \A w \in Workers : auth_done[w] = MaxAuth
  /\ {"REDIS_REPLY_ERROR", "REDIS_REPLY_STATUS"} \subseteq auth_seen
  /\ auth_calls = 1

\* C5. A completion without a reply changes nothing: no system call, the
\* flag, the mutex and the worker's position are as before; and as long as
\* only such completions have been delivered nothing is logged and the flag
\* is still clear.
C5_EmptyNoop ==
  /\ [][(ev'.op = "auth_complete" /\ ev'.reply = NoReply) =>
          /\ io' = <<>>
          /\ auth_logged' = auth_logged
          /\ auth_log_mutex' = auth_log_mutex
          /\ pc' = pc
          /\ auth_calls' = auth_calls
          /\ auth_lines' = auth_lines]_vars
  /\ [](auth_seen \subseteq {"NULL"} => (auth_logged = 0 /\ auth_calls = 0 /\ Quiescent))

\* A completion without a reply was delivered, and the reply logged is a later
\* one.
C5_Witness ==
  /\ "NULL" \in auth_seen
  /\ ev.op = "auth_log"
  /\ auth_calls = 1
  /\ auth_lines = 1

(***************************************************************************)
(* Properties of the pool.                                                 *)
(***************************************************************************)

\* C1. Slot exclusivity: no handle is in two slots, of one pool or of two,
\* and what a slot holds is nothing or one live handle of its pool.
C1_SlotExclusive ==
  /\ \A p \in Workers, q \in Workers : \A i \in Slots, j \in Slots :
       (slots[p][i] # NULL /\ slots[p][i] = slots[q][j]) => (p = q /\ i = j)
  /\ \A p \in Workers : \A i \in Slots :
       slots[p][i] # NULL =>
         /\ slots[p][i] \in Handles
         /\ ac[slots[p][i]].state \in {"Connected", "Disconnecting"}
         /\ ac[slots[p][i]].data = p

\* Every slot of a pool is taken, one of them by a handle that a reconnect
\* requested after a failure or a disconnect.
C1_Witness ==
  \E p \in PoolWorkers :
    /\ \A i \in Slots : slots[p][i] # NULL
    /\ \E i \in Slots : ac[slots[p][i]].reconnect

\* A connect attempt of pool p has just failed, or a connection of pool p has
\* just gone.
ReconnectDue(p) ==
  \/ (ev.op = "pool_on_connect" /\ ev.p = p /\ (ev.status = REDIS_ERR \/ ev.err # 0))
  \/ (ev.op = "pool_on_disconnect" /\ ev.p = p)

\* A reconnect timer of pool p has just fired and issued a connect request.
ReconnectIssued(p) == ev.op = "pool_can_connect" /\ ev.p = p

\* C2. Eventual reconnection: a failed connect attempt and a disconnect each
\* leave a reconnect timer pending for the pool; a pending timer leads to a
\* connect request for that pool; and if attempts keep failing, connect
\* requests are issued again and again.
C2_Reconnects ==
  \A p \in PoolWorkers :
    /\ [](ReconnectDue(p) => timers[p] > 0)
    /\ (timers[p] > 0) ~> ReconnectIssued(p)
    /\ ([]<>ReconnectDue(p)) => ([]<>ReconnectIssued(p))

\* A timer has fired after a failure, and its connect request is in flight.
C2_Witness ==
  /\ ev.op = "pool_can_connect"
  /\ ac[ev.h].state = "Connecting"
  /\ ac[ev.h].reconnect
  /\ ac[ev.h].data = ev.p

\* C10. A successful connect callback puts the handle into the lowest empty
\* slot of its pool and changes no other slot of any pool.
C10_FirstEmptySlot ==
  [][(/\ ev'.op = "pool_on_connect"
      /\ ev'.status = REDIS_OK
      /\ ev'.err = 0
      /\ ev'.p # NULL
      /\ ac[ev'.h].state = "Connecting"
      /\ \E i \in Slots : slots[ev'.p][i] = NULL)
     => \E i \in Slots :
          /\ slots[ev'.p][i] = NULL
          /\ \A j \in Slots : j < i => slots[ev'.p][j] # NULL
          /\ slots' = [slots EXCEPT ![ev'.p][i] = ev'.h]]_vars

\* The scenario of C10: the first attempt failed, the reconnect timer fired,
\* the second attempt has just succeeded, and its handle is in slot 0, the
\* other slots being empty.
C10_Witness ==
  \E p \in PoolWorkers :
    /\ started[p] = 1
    /\ timers[p] = 0
    /\ ev.op = "pool_on_connect"
    /\ ev.status = REDIS_OK
    /\ slots[p][0] = ev.h
    /\ ac[ev.h].reconnect
    /\ \A i \in Slots : i > 0 => slots[p][i] = NULL

\* C11. A failed connect callback (an error status, or an error reported by
\* the handle) leaves every slot of every pool as it was, and arms exactly one
\* more reconnect timer, for the handle's pool and for no other.
C11_FailedConnect ==
  [][(/\ ev'.op = "pool_on_connect"
      /\ (ev'.status = REDIS_ERR \/ ev'.err # 0))
     => /\ slots' = slots
        /\ ev'.p \in Workers
        /\ timers' = [timers EXCEPT ![ev'.p] = @ + 1]
        /\ \A q \in Workers, i \in Slots : slots'[q][i] # ev'.h]_vars

\* A connect attempt has just failed while another handle of the pool is
\* connected: the slots are as before and one timer is pending.
C11_Witness ==
  /\ ev.op = "pool_on_connect"
  /\ ev.status = REDIS_ERR
  /\ ev.err # 0
  /\ timers[ev.p] = 1
  /\ \E i \in Slots : slots[ev.p][i] # NULL
  /\ \A i \in Slots : slots[ev.p][i] # ev.h

\* The slots, as <<pool, index>> pairs, that hold handle h.
SlotsOf(h) == {x \in Workers \X Slots : slots[x[1]][x[2]] = h}

\* C12. The disconnect callback clears the one slot that holds the handle and
\* changes no other slot of any pool; once it has returned the handle is in no
\* slot, also when the disconnect was asked for through pool_free_context.
C12_ClearsOwnSlot ==
  [][ev'.op = "pool_on_disconnect"
     => /\ Cardinality(SlotsOf(ev'.h)) = 1
        /\ \A q \in Workers, i \in Slots :
             slots'[q][i] = (IF slots[q][i] = ev'.h THEN NULL ELSE slots[q][i])
        /\ \A q \in Workers, i \in Slots : slots'[q][i] # ev'.h]_vars

\* A handle in slot 1 has gone after pool_free_context asked for its
\* disconnect; slot 1 is empty and slot 0 still holds the other handle.
C12_Witness ==
  /\ ev.op = "pool_on_disconnect"
  /\ ev.was = "Disconnecting"
  /\ slots[ev.p][1] = NULL
  /\ slots[ev.p][0] \notin {NULL, ev.h}
  /\ ac[slots[ev.p][0]].state = "Connected"

\* C13, as claimed: every call of the disconnect callback arms exactly one
\* more reconnect timer, whatever the status, whether or not the handle was
\* in a slot, and whatever ac->data holds.
C13_AlwaysReconnects ==
  [][ev'.op = "pool_on_disconnect"
     => \E p \in Workers : timers' = [timers EXCEPT ![p] = @ + 1]]_vars

\* C13, amended: a call of the disconnect callback on a handle whose data
\* field holds a pool arms exactly one more timer, for that pool, whatever the
\* status and whether or not the handle was in a slot; on a handle without a
\* pool it returns at once: no timer, no slot and no log line.
C13_ReconnectsItsPool ==
  [][ev'.op = "pool_on_disconnect"
     => IF ev'.p # NULL
          THEN /\ ev'.p = ac[ev'.h].data
               /\ timers' = [timers EXCEPT ![ev'.p] = @ + 1]
          ELSE /\ ac[ev'.h].data = NULL
               /\ timers' = timers
               /\ slots' = slots
               /\ io' = <<>>]_vars

\* A connection of the pool has just ended cleanly, and a reconnect timer is
\* pending for the pool.
C13_Witness ==
  /\ ev.op = "pool_on_disconnect"
  /\ ev.status = REDIS_OK
  /\ ev.p \in Workers
  /\ timers[ev.p] = 1

\* The handles in flight that a reconnect timer requested for pool p.
ReconnectRequests(a, p) ==
  {h \in Handles : a[h].state = "Connecting" /\ a[h].data = p /\ a[h].reconnect}

\* C14. A reconnect task is one-shot.  Firing takes a pending task, releases
\* it (one task fewer is pending for its pool, none fewer for another) and
\* issues exactly one connect request: a new handle, for the task's pool,
\* with the configured database and is_reconnect = true.  Only firing
\* consumes a task, and every request marked as a reconnect comes from a
\* firing, so a task fires once and is not used again.
C14_OneShot ==
  /\ [][ev'.op = "pool_can_connect"
        => /\ ev'.p \in Workers
           /\ timers[ev'.p] > 0
           /\ timers' = [timers EXCEPT ![ev'.p] = @ - 1]
           /\ ac[ev'.h].state = "Free"
           /\ ac' = [ac EXCEPT ![ev'.h] = [state |-> "Connecting", data |-> ev'.p,
                                           reconnect |-> TRUE]]
           /\ ev'.db_num = cfg.database
           /\ ev'.is_reconnect = TRUE
           /\ slots' = slots]_vars
  /\ [][\A p \in Workers :
          /\ timers'[p] < timers[p] => (ev'.op = "pool_can_connect" /\ ev'.p = p)
          /\ (ReconnectRequests(ac', p) \ ReconnectRequests(ac, p)) # {}
               => (ev'.op = "pool_can_connect" /\ ev'.p = p /\ timers'[p] = timers[p] - 1)]_vars

\* Two tasks were pending; one has just fired and its request is in flight,
\* the other is still pending.
C14_Witness ==
  /\ ev.op = "pool_can_connect"
  /\ ev.is_reconnect
  /\ ev.db_num \in Databases
  /\ timers[ev.p] = 1
  /\ ReconnectRequests(ac, ev.p) = {ev.h}

\* The text "Error disconnecting: <errstr>", with "(null)" for no string.
DisconnectText(errstr) ==
  IF errstr = NullStr
    THEN CStr(<<"Error disconnecting: ", "(null)">>, 21 + 6)
    ELSE CStr(<<"Error disconnecting: ">> \o errstr.txt, 21 + errstr.len)

\* C15. The disconnect callback writes one line, at error level, to the sink,
\* reading "Error disconnecting: <errstr>" ("(null)" standing for a missing
\* error string), exactly when the status is not REDIS_OK; after a clean
\* disconnect it makes no system call.  The text is handed to the sink whole
\* and the line carries its first SLOG_MSG_MAX_LEN bytes, the sink's limit.
C15_DisconnectLog ==
  ev.op = "pool_on_disconnect" =>
    IF ev.status # REDIS_OK
      THEN /\ Len(io) = 1
           /\ io[1].op = "write"
           /\ io[1].fd = log_fd
           /\ io[1].letter = "E"
           /\ io[1].msg.txt = DisconnectText(ev.errstr).txt
           /\ io[1].msg.len = Min(DisconnectText(ev.errstr).len, SLOG_MSG_MAX_LEN)
      ELSE io = <<>>

\* A connection that ended with an error and no error string: the line
\* carries the placeholder.
C15_Witness ==
  /\ ev.op = "pool_on_disconnect"
  /\ ev.status = REDIS_ERR
  /\ ev.errstr = NullStr
  /\ Len(io) = 1
  /\ io[1].msg.txt = <<"Error disconnecting: ", "(null)">>
  /\ io[1].msg.len = 27

\* C16. An authentication completion never changes the pool: whatever the
\* reply, the callback leaves every slot, every reconnect timer and every
\* handle as they were, so the handle it was called for is still connected and
\* in its slot.
C16_AuthLeavesPool ==
  [][ev'.op = "pool_on_auth_complete"
     => /\ slots' = slots
        /\ timers' = timers
        /\ ac' = ac
        /\ ev'.reply # NoReply =>
             /\ ac'[ev'.c].state = "Connected"
             /\ \E i \in Slots : slots'[ev'.p][i] = ev'.c]_vars

\* Authentication has just failed on a connection of the pool, the failure
\* was logged, and the connection is still connected and in its slot.
C16_Witness ==
  /\ ev.op = "pool_on_auth_complete"
  /\ ev.reply.type = "REDIS_REPLY_ERROR"
  /\ auth_lines = 1
  /\ io # <<>>
  /\ ac[ev.c].state = "Connected"
  /\ \E i \in Slots : slots[ev.p][i] = ev.c
  /\ timers[ev.p] = 0

\* C17. Under the lock the first non-empty reply is classified: an error
\* reply logs "Authentication failed: <message>" at error level, a status
\* reply logs "Authentication succeeded: <message>" at info level (a line
\* when the threshold admits info, as for any message of that level), a reply
\* of another type logs nothing.  In all three cases the flag goes from 0 to
\* 1 before the lock is released, and once it is set no completion logs.
C17_Classification ==
  /\ [](ev.op = "auth_log" =>
          /\ auth_log_mutex = ev.w
          /\ pc[ev.w] = "set"
          /\ auth_logged = 0
          /\ ev.reply # NoReply
          /\ ev.reply.type = "REDIS_REPLY_ERROR" =>
               /\ Cardinality(Writes(io)) = 1
               /\ io[1].op = "write"
               /\ io[1].letter = "E"
               /\ io[1].msg = CStr(<<"Authentication failed: ">> \o ev.reply.str.txt,
                                   23 + ev.reply.str.len)
          /\ ev.reply.type = "REDIS_REPLY_STATUS" =>
               IF WEBDIS_INFO <= cfg.verbosity
                 THEN /\ Cardinality(Writes(io)) = 1
                      /\ io[1].op = "write"
                      /\ io[1].letter = "I"
                      /\ io[1].msg = CStr(<<"Authentication succeeded: ">> \o ev.reply.str.txt,
                                          26 + ev.reply.str.len)
                 ELSE io = <<>>
          /\ ev.reply.type \notin {"REDIS_REPLY_ERROR", "REDIS_REPLY_STATUS"} => io = <<>>)
  /\ [][ev'.op = "auth_set" =>
          /\ pc[ev'.w] = "set"
          /\ auth_logged = 0
          /\ auth_logged' = 1
          /\ auth_log_mutex = ev'.w
          /\ auth_log_mutex' = 0]_vars
  /\ [][auth_logged # 0 =>
          /\ auth_logged' = auth_logged
          /\ auth_calls' = auth_calls
          /\ auth_lines' = auth_lines
          /\ io' = <<>>]_vars

\* A reply of another type came first and consumed the flag: error and
\* status replies have been delivered since and have returned, and nothing
\* was ever passed to the log.
C17_Witness ==
  /\ Quiescent
  /\ auth_logged = 1
  /\ auth_calls = 0
  /\ auth_lines = 0
  /\ {"REDIS_REPLY_INTEGER", "REDIS_REPLY_ERROR", "REDIS_REPLY_STATUS"} \subseteq auth_seen

\* The connect attempts of pool p in flight, and its connected handles.
InFlight(p) == {h \in Handles : ac[h].data = p /\ ac[h].state = "Connecting"}
Live(p) == {h \in Handles : ac[h].data = p /\ ac[h].state \in {"Connected", "Disconnecting"}}

\* C18. Connection budget: a pool that has issued N <= capacity connect
\* requests at start has, in every state, N = attempts in flight + connected
\* handles + pending reconnect timers; every connected handle is in a slot;
\* and a successful connect callback finds an empty slot and leaves its
\* handle there, so the pool-full branch is not reached.
C18_Budget ==
  /\ [](\A p \in PoolWorkers :
          /\ started[p] <= PoolSize
          /\ Cardinality(InFlight(p)) + Cardinality(Live(p)) + timers[p] = started[p]
          /\ \A h \in Live(p) : \E i \in Slots : slots[p][i] = h)
  /\ [][(ev'.op = "pool_on_connect" /\ ev'.status = REDIS_OK /\ ev'.err = 0) =>
          /\ \E i \in Slots : slots[ev'.p][i] = NULL
          /\ \E i \in Slots : slots'[ev'.p][i] = ev'.h]_vars

\* The pool is full again: after a disconnect, the reconnect has just
\* succeeded and taken the last empty slot.
C18_Witness ==
  \E p \in PoolWorkers :
    /\ ev.op = "pool_on_connect"
    /\ ev.status = REDIS_OK
    /\ ev.p = p
    /\ ac[ev.h].reconnect
    /\ started[p] = PoolSize
    /\ Cardinality(Live(p)) = PoolSize
    /\ \A i \in Slots : slots[p][i] # NULL

\* C19. Lock discipline of the authentication callback: the flag is read
\* (auth_check) and written (auth_set) only by the thread that holds the
\* mutex, and changes in no other step; a thread holds the mutex exactly
\* while it is between its lock and its return, so every return path has
\* released it; the flag is 0 or 1 and never goes back to 0; and a thread
\* that waits for the mutex gets it.
C19_LockDiscipline ==
  /\ [][/\ ev'.op \in {"auth_check", "auth_log", "auth_set"} =>
             (auth_log_mutex = ev'.w /\ auth_log_mutex # 0)
        /\ auth_logged' # auth_logged => (ev'.op = "auth_set" /\ auth_log_mutex = ev'.w)
        /\ auth_logged' >= auth_logged]_vars
  /\ [](\A w \in Workers :
          /\ auth_log_mutex = w <=> pc[w] \in {"check", "log", "set"}
          /\ pc[w] = "idle" => auth_log_mutex # w)
  /\ [](auth_logged \in {0, 1})
  /\ \A w \in Workers : (pc[w] = "lock") ~> (auth_log_mutex = w)
  /\ \A w \in Workers : (pc[w] # "idle") ~> (pc[w] = "idle")

\* One thread holds the mutex and is about to log while every other thread
\* waits for it.
C19_Witness ==
  \E w \in Workers :
    /\ auth_log_mutex = w
    /\ pc[w] = "log"
    /\ auth_logged = 0
    /\ \A v \in Workers \ {w} : pc[v] = "lock"

\* C20. Log reopen safety, as claimed: after any sequence of slog_init calls,
\* each of whose opens may succeed or fail, s->log.fd names an open
\* descriptor: the log file opened last, or standard error when the last
\* open failed or no file is configured; and no call closes standard error.
C20_ReopenSafe ==
  /\ log_fd # -1 => fds[log_fd] # "closed"
  /\ ev.op = "slog_init" =>
       fds[log_fd] = (IF cfg.logfile /\ ev.ok THEN "logfile" ELSE "stderr")
  /\ fds[2] = "stderr"

====
